---- MODULE Spec2Model ----
(***************************************************************************)
(* Model of the selectable list widget ItemControl of                      *)
(* qontract_development_cli/tui/widgets.py: the item list, the selected    *)
(* index, the key handlers key_down / key_up, add_items, and the scroll    *)
(* requests the handlers send to the parent viewport.                      *)
(***************************************************************************)
EXTENDS Integers, Sequences, FiniteSets, TLC

\* ---------------------------------------------------------------- bounds
MaxItems == 6
MaxAdd == 3
MaxHeight == 5
MaxStreak == MaxItems + 2

ItemNames == {"a", "b"}

\* ------------------------------------------------------- Python encodings
\* The selected index is `int | None`: None is the empty tuple and the
\* index i is the one-element tuple <<i>>.  Before the Mount handler runs
\* the attribute _selected_index does not exist; the variable then holds
\* None and `mounted` is FALSE (no handler reads it before the mount).
None == <<>>
Some(i) == <<i>>
Val(o) == o[1]
\* "no run of key presses is being counted" (history variables below).
NoStreak == 0 - 1

VARIABLES
  mounted,            \* the Mount event has been handled
  _items,             \* ItemControl._items
  _selected_index,    \* ItemControl._selected_index (None or Some(index))
  scroll_offset,      \* parent.scroll_offset.y
  content_height,     \* parent.content_size.height
  emitted,            \* items of the ItemSelected messages the last handler emitted
  scroll_requests,    \* scroll calls the last handler made on the parent
  op,                 \* the last handler that ran
  raised,             \* exception that escaped the last handler ("" if none)
  streak_down,        \* history: consecutive key_down presses since index 0
  streak_up,          \* history: consecutive key_up presses since index n-1
  \* the ItemControl variant of "widgets copy.py", which binds the enter key
  _item_list,         \* ItemControl._item_list: ItemNodes [id, label]
  cursor,             \* ItemControl.cursor: ItemId | None
  cursor_line,        \* ItemControl.cursor_line
  posted,             \* items of the ItemSelected messages the last handler posted
  scroll_to_region    \* lines of the ScrollToRegion messages of the last handler

\* state of the variant with the enter key
variant_vars == <<_item_list, cursor, cursor_line, posted, scroll_to_region>>

\* state of the widget of widgets.py
widget_vars == <<mounted, _items, _selected_index, scroll_offset, content_height,
                 emitted, scroll_requests, streak_down, streak_up>>

vars == <<mounted, _items, _selected_index, scroll_offset, content_height,
          emitted, scroll_requests, op, raised, streak_down, streak_up,
          _item_list, cursor, cursor_line, posted, scroll_to_region>>

\* ---------------------------------------------------------------- helpers
Min(a, b) == IF a < b THEN a ELSE b
Max(a, b) == IF a > b THEN a ELSE b

\* All sequences over S of length 0..n
SeqsUpTo(S, n) == UNION {[1..k -> S] : k \in 0..n}

\* textual.geometry.clamp(value, minimum, maximum)
clamp(value, minimum, maximum) == Min(Max(value, minimum), maximum)

\* Variant of _clamp_index that wraps around instead of saturating.
_clamp_index_wraps(items, new_index) ==
  IF Len(items) = 0 THEN None ELSE Some(new_index % Len(items))

\* ItemControl._clamp_index
_clamp_index(items, new_index) ==
  IF Len(items) = 0 THEN None ELSE Some(clamp(new_index, 0, Len(items) - 1))

\* Variant of the setter that stores the index without emitting ItemSelected.
selected_index_setter_silent(items, cur, new_value) ==
  IF new_value # None
  THEN [sel |-> _clamp_index(items, Val(new_value)), emitted |-> <<>>]
  ELSE [sel |-> cur, emitted |-> <<>>]

\* The selected_index property setter: the stored index and the messages
\* it emits.  cur is the stored index before the call.
selected_index_setter(items, cur, new_value) ==
  IF new_value # None
  THEN LET idx == _clamp_index(items, Val(new_value))
       IN [sel |-> idx,
           emitted |-> IF idx # None THEN <<items[Val(idx) + 1]>> ELSE <<>>]
  ELSE [sel |-> cur, emitted |-> <<>>]

\* The two commands of the parent viewport; it applies a one-row request
\* and keeps the offset in [0, max(0, count - height)].
MaxScroll(count, height) == Max(0, count - height)
scroll_down(offset, count, height) == Min(offset + 1, MaxScroll(count, height))
scroll_up(offset, count, height) == Max(offset - 1, 0)

ScrollDownRequest == [dir |-> "down", animate |-> FALSE]
ScrollUpRequest == [dir |-> "up", animate |-> FALSE]

\* Variants of key_down's test: without the scroll offset, with the index
\* before the increment, and with key_up's expression.
key_down_scrolls_no_offset(sel, offset, height) == sel % height = 0
key_down_scrolls_old_index(sel, offset, height) == (sel - 1 - offset) % height = 0
key_down_scrolls_as_up(sel, offset, height) == (sel + 1 - offset) % height = 0

\* key_down's test for a scroll request
key_down_scrolls(sel, offset, height) == (sel - offset) % height = 0

\* Variant of key_up's test with key_down's expression.
key_up_scrolls_as_down(sel, offset, height) == (sel - offset) % height = 0

\* key_up's test for a scroll request
key_up_scrolls(sel, offset, height) == (sel + 1 - offset) % height = 0

\* History bookkeeping: a run of presses starts whenever the selection
\* sits on the first (resp. last) item after a handler other than the key.
StartDown(items, sel) == IF sel = Some(0) THEN 0 ELSE NoStreak
StartUp(items, sel) ==
  IF sel = Some(Len(items) - 1) THEN 0 ELSE NoStreak
Bump(s) == IF s >= 0 /\ s < MaxStreak THEN s + 1 ELSE NoStreak

\* ------------------------------------------------------------------ Init
\* ItemControl.__init__: empty list, no _selected_index attribute yet.
Init ==
  /\ mounted = FALSE
  /\ _items = <<>>
  /\ _selected_index = None
  /\ scroll_offset = 0
  /\ content_height \in 1..MaxHeight
  /\ emitted = <<>>
  /\ scroll_requests = <<>>
  /\ op = "init"
  /\ raised = ""
  /\ streak_down = NoStreak
  /\ streak_up = NoStreak
  /\ _item_list = <<>>
  /\ cursor = None
  /\ cursor_line = 0
  /\ posted = <<>>
  /\ scroll_to_region = <<>>

\* --------------------------------------------------------------- actions
\* ItemControl._on_mount: self.selected_index = 0
_on_mount ==
  /\ ~mounted
  /\ raised = ""
  /\ LET r == selected_index_setter(_items, _selected_index, Some(0))
     IN /\ _selected_index' = r.sel
        /\ emitted' = r.emitted
        /\ streak_down' = StartDown(_items, r.sel)
        /\ streak_up' = StartUp(_items, r.sel)
  /\ mounted' = TRUE
  /\ scroll_requests' = <<>>
  /\ op' = "mount"
  /\ UNCHANGED variant_vars
  /\ UNCHANGED <<_items, scroll_offset, content_height, raised>>

\* Variant of add_items without the `if self.selected_index is None` step.
add_items_keeps_none ==
  /\ mounted
  /\ raised = ""
  /\ \E items \in SeqsUpTo(ItemNames, MaxAdd) :
       /\ Len(_items) + Len(items) <= MaxItems
       /\ _items' = _items \o items
  /\ emitted' = <<>>
  /\ streak_down' = StartDown(_items', _selected_index)
  /\ streak_up' = StartUp(_items', _selected_index)
  /\ scroll_requests' = <<>>
  /\ op' = "add_items"
  /\ UNCHANGED variant_vars
  /\ UNCHANGED <<mounted, _selected_index, scroll_offset, content_height, raised>>

\* Variant of add_items that assigns selected_index = 0 on every call.
add_items_always_selects ==
  /\ mounted
  /\ raised = ""
  /\ \E items \in SeqsUpTo(ItemNames, MaxAdd) :
       /\ Len(_items) + Len(items) <= MaxItems
       /\ _items' = _items \o items
       /\ LET r == selected_index_setter(_items', _selected_index, Some(0))
          IN /\ _selected_index' = r.sel
             /\ emitted' = r.emitted
             /\ streak_down' = StartDown(_items', r.sel)
             /\ streak_up' = StartUp(_items', r.sel)
  /\ scroll_requests' = <<>>
  /\ op' = "add_items"
  /\ UNCHANGED variant_vars
  /\ UNCHANGED <<mounted, scroll_offset, content_height, raised>>

\* ItemControl.add_items(items)
add_items ==
  /\ mounted
  /\ raised = ""
  /\ \E items \in SeqsUpTo(ItemNames, MaxAdd) :
       /\ Len(_items) + Len(items) <= MaxItems
       /\ _items' = _items \o items
       /\ LET r == IF _selected_index = None
                   THEN selected_index_setter(_items', _selected_index, Some(0))
                   ELSE [sel |-> _selected_index, emitted |-> <<>>]
          IN /\ _selected_index' = r.sel
             /\ emitted' = r.emitted
             /\ streak_down' = StartDown(_items', r.sel)
             /\ streak_up' = StartUp(_items', r.sel)
  /\ scroll_requests' = <<>>
  /\ op' = "add_items"
  /\ UNCHANGED variant_vars
  /\ UNCHANGED <<mounted, scroll_offset, content_height, raised>>

\* widget.selected_index = new_value, called from outside the widget
set_selected_index ==
  /\ mounted
  /\ raised = ""
  /\ \E new_value \in {Some(i) : i \in (0 - 2)..(MaxItems + 1)} \cup {None} :
       LET r == selected_index_setter(_items, _selected_index, new_value)
       IN /\ _selected_index' = r.sel
          /\ emitted' = r.emitted
          /\ streak_down' = StartDown(_items, r.sel)
          /\ streak_up' = StartUp(_items, r.sel)
  /\ scroll_requests' = <<>>
  /\ op' = "set_selected_index"
  /\ UNCHANGED variant_vars
  /\ UNCHANGED <<mounted, _items, scroll_offset, content_height, raised>>

\* `self.selected_index += 1` with selected_index None: None + 1 raises.
key_down_raises ==
  /\ _selected_index = None
  /\ raised' = "TypeError"
  /\ emitted' = <<>>
  /\ scroll_requests' = <<>>
  /\ streak_down' = NoStreak
  /\ streak_up' = NoStreak
  /\ UNCHANGED <<_items, _selected_index, scroll_offset>>

key_down_moves ==
  /\ _selected_index # None
  /\ LET r == selected_index_setter(_items, _selected_index,
                                    Some(Val(_selected_index) + 1))
         scrolls == key_down_scrolls(Val(r.sel), scroll_offset, content_height)
     IN /\ _selected_index' = r.sel
        /\ emitted' = r.emitted
        /\ scroll_requests' = IF scrolls THEN <<ScrollDownRequest>> ELSE <<>>
        /\ scroll_offset' = IF scrolls
                            THEN scroll_down(scroll_offset, Len(_items), content_height)
                            ELSE scroll_offset
        /\ streak_down' = Bump(streak_down)
        /\ streak_up' = StartUp(_items, r.sel)
  /\ UNCHANGED <<_items, raised>>

\* ItemControl.key_down
key_down ==
  /\ mounted
  /\ raised = ""
  /\ op' = "key_down"
  /\ UNCHANGED variant_vars
  /\ UNCHANGED <<mounted, content_height>>
  /\ \/ key_down_raises
     \/ key_down_moves

\* `self.selected_index -= 1` with selected_index None: None - 1 raises.
key_up_raises ==
  /\ _selected_index = None
  /\ raised' = "TypeError"
  /\ emitted' = <<>>
  /\ scroll_requests' = <<>>
  /\ streak_down' = NoStreak
  /\ streak_up' = NoStreak
  /\ UNCHANGED <<_items, _selected_index, scroll_offset>>

key_up_moves ==
  /\ _selected_index # None
  /\ LET r == selected_index_setter(_items, _selected_index,
                                    Some(Val(_selected_index) - 1))
         scrolls == key_up_scrolls(Val(r.sel), scroll_offset, content_height)
     IN /\ _selected_index' = r.sel
        /\ emitted' = r.emitted
        /\ scroll_requests' = IF scrolls THEN <<ScrollUpRequest>> ELSE <<>>
        /\ scroll_offset' = IF scrolls
                            THEN scroll_up(scroll_offset, Len(_items), content_height)
                            ELSE scroll_offset
        /\ streak_down' = StartDown(_items, r.sel)
        /\ streak_up' = Bump(streak_up)
  /\ UNCHANGED <<_items, raised>>

\* ItemControl.key_up
key_up ==
  /\ mounted
  /\ raised = ""
  /\ op' = "key_up"
  /\ UNCHANGED variant_vars
  /\ UNCHANGED <<mounted, content_height>>
  /\ \/ key_up_raises
     \/ key_up_moves

\* -------------------------------------------------------- specifications
Next ==
  \/ _on_mount
  \/ add_items
  \/ set_selected_index
  \/ key_down
  \/ key_up

Spec == Init /\ [][Next]_vars

\* Keyboard navigation and bulk loading only: the selection is never set
\* from outside the widget.
NextNav ==
  \/ _on_mount
  \/ add_items
  \/ key_down
  \/ key_up

SpecNav == Init /\ [][NextNav]_vars

\* ------------------------------------- the variant with the enter key
\* Python list indexing: i is a valid index of a list of n elements when
\* -n <= i < n, negative indices counting from the end; any other index
\* raises IndexError.
ValidIndex(list, i) == i >= 0 - Len(list) /\ i < Len(list)
GetItem(list, i) == IF i >= 0 THEN list[i + 1] ELSE list[Len(list) + i + 1]

\* ItemNode(item_id, label, control)
ItemNode(item_id, label) == [id |-> item_id, label |-> label]

\* watch_cursor_line: assigning a different value to the reactive
\* cursor_line emits one ScrollToRegion for the new line.
watch_cursor_line(old, value) == IF old # value THEN <<value>> ELSE <<>>

\* add_items of the variant: the nodes appended for `items`, with ids
\* continuing from the length of the list.
NewNodes(list, items) ==
  [k \in 1..Len(items) |-> ItemNode(Len(list) + k - 1, items[k])]

\* ItemControl.add_items(items) of the variant: the cursor is set when the
\* node with id 0 is created.
add_item_nodes ==
  /\ raised = ""
  /\ \E items \in SeqsUpTo(ItemNames, MaxAdd) :
       /\ Len(_item_list) + Len(items) <= MaxItems
       /\ _item_list' = _item_list \o NewNodes(_item_list, items)
       /\ cursor' = IF Len(_item_list) = 0 /\ Len(items) > 0 THEN Some(0) ELSE cursor
  /\ posted' = <<>>
  /\ scroll_to_region' = <<>>
  /\ op' = "add_item_nodes"
  /\ UNCHANGED <<cursor_line, raised>>
  /\ UNCHANGED widget_vars

\* ItemControl.cursor_down (called by key_down of the variant)
cursor_down ==
  /\ raised = ""
  /\ LET line1 == cursor_line + 1
     IN IF ValidIndex(_item_list, line1)
        THEN /\ cursor_line' = line1
             /\ cursor' = Some(GetItem(_item_list, line1).id)
             /\ scroll_to_region' = watch_cursor_line(cursor_line, line1)
             /\ raised' = ""
        ELSE \* except IndexError: back to line 0
             /\ cursor_line' = 0
             /\ scroll_to_region' = watch_cursor_line(cursor_line, line1)
                                      \o watch_cursor_line(line1, 0)
             /\ IF ValidIndex(_item_list, 0)
                THEN cursor' = Some(GetItem(_item_list, 0).id) /\ raised' = ""
                ELSE cursor' = cursor /\ raised' = "IndexError"
  /\ posted' = <<>>
  /\ op' = "cursor_down"
  /\ UNCHANGED _item_list
  /\ UNCHANGED widget_vars

\* ItemControl.cursor_up (called by key_up of the variant)
cursor_up ==
  /\ raised = ""
  /\ LET line1 == cursor_line - 1
         line2 == IF line1 < 0 THEN Len(_item_list) - 1 ELSE line1
     IN /\ cursor_line' = line2
        /\ scroll_to_region' = watch_cursor_line(cursor_line, line1)
                                 \o watch_cursor_line(line1, line2)
        /\ IF ValidIndex(_item_list, line2)
           THEN cursor' = Some(GetItem(_item_list, line2).id) /\ raised' = ""
           ELSE cursor' = cursor /\ raised' = "IndexError"
  /\ posted' = <<>>
  /\ op' = "cursor_up"
  /\ UNCHANGED _item_list
  /\ UNCHANGED widget_vars

\* ItemControl.key_enter: post ItemSelected(self._item_list[self.cursor_line])
key_enter ==
  /\ raised = ""
  /\ IF ValidIndex(_item_list, cursor_line)
     THEN posted' = <<GetItem(_item_list, cursor_line)>> /\ raised' = ""
     ELSE posted' = <<>> /\ raised' = "IndexError"
  /\ scroll_to_region' = <<>>
  /\ op' = "key_enter"
  /\ UNCHANGED <<_item_list, cursor, cursor_line>>
  /\ UNCHANGED widget_vars

\* Variant of action_click_item that moves the cursor but not cursor_line.
action_click_item_cursor_only ==
  /\ raised = ""
  /\ \E item_id \in 0..(Len(_item_list) - 1) :
       cursor' = Some(item_id)
  /\ posted' = <<>>
  /\ scroll_to_region' = <<>>
  /\ op' = "action_click_item"
  /\ UNCHANGED <<_item_list, cursor_line, raised>>
  /\ UNCHANGED widget_vars

\* ItemControl.action_click_item(item_id): a click on the rendered item
\* with that id.
action_click_item ==
  /\ raised = ""
  /\ \E item_id \in 0..(Len(_item_list) - 1) :
       /\ cursor' = Some(item_id)
       /\ cursor_line' = item_id
       /\ scroll_to_region' = watch_cursor_line(cursor_line, item_id)
  /\ posted' = <<>>
  /\ op' = "action_click_item"
  /\ UNCHANGED <<_item_list, raised>>
  /\ UNCHANGED widget_vars

NextEnter ==
  \/ add_item_nodes
  \/ cursor_down
  \/ cursor_up
  \/ key_enter
  \/ action_click_item

SpecEnter == Init /\ [][NextEnter]_vars

\* ------------------------------------------------------------ type check
TypeOK ==
  /\ mounted \in BOOLEAN
  /\ Len(_items) <= MaxItems
  /\ _selected_index \in {None} \cup {Some(i) : i \in 0..MaxItems}
  /\ scroll_offset \in 0..MaxItems
  /\ content_height \in 1..MaxHeight
  /\ raised \in {"", "TypeError"}

\* ================================================================ claims
Count == Len(_items)
KeyOps == {"key_down", "key_up"}

\* C1: in every state reached after the mount by add_items,
\* set_selected_index, key_down and key_up, the selection is an index in
\* [0, count-1] when the list is non-empty and None when it is empty.
C1_SelectionInRange ==
  mounted =>
    IF Count > 0
    THEN _selected_index # None /\ Val(_selected_index) \in 0..(Count - 1)
    ELSE _selected_index = None

\* a key_down pressed on the last of three items left the selection there
C1_Witness ==
  /\ op = "key_down"
  /\ Count = 3
  /\ _selected_index = Some(2)
  /\ streak_down = 4

\* C2 (as claimed): on a mounted widget with an empty list key_down and
\* key_up complete without raising, the selection stays None and the list
\* stays empty.
C2_EmptyListKeysAreNoOps ==
  (mounted /\ op \in KeyOps /\ Count = 0) =>
    (raised = "" /\ _selected_index = None /\ _items = <<>>)

\* C3: navigation saturates and never wraps.  k consecutive key_down
\* presses from index 0 of a list of n items leave the selection at
\* min(k, n-1); k consecutive key_up presses from index n-1 leave it at
\* max(n-1-k, 0).
C3_NavigationSaturates ==
  /\ streak_down >= 0 => _selected_index = Some(Min(streak_down, Count - 1))
  /\ streak_up >= 0 => _selected_index = Some(Max(Count - 1 - streak_up, 0))

\* n+1 presses of key_down from index 0 of a list of n >= 3 items
C3_Witness ==
  /\ Count >= 3
  /\ op = "key_down"
  /\ streak_down = Count + 1
  /\ _selected_index = Some(Count - 1)

\* C4 (as claimed): on a non-empty list each set_selected_index, key_down
\* or key_up that changes the selected index emits exactly one ItemSelected
\* carrying the item at the new index, and one that leaves the index where
\* it was emits none.
C4_OneNotificationPerChange ==
  [][(op' \in KeyOps \cup {"set_selected_index"} /\ Len(_items') > 0 /\ raised' = "")
       => emitted' = IF _selected_index' # _selected_index
                     THEN <<_items'[Val(_selected_index') + 1]>>
                     ELSE <<>>]_vars

\* C5: with keyboard navigation only, the selected index lies in the
\* window [scroll_offset, scroll_offset + content_height - 1].
C5_SelectionVisible ==
  (mounted /\ Count > 0) =>
    /\ Val(_selected_index) >= scroll_offset
    /\ Val(_selected_index) <= scroll_offset + content_height - 1

\* the viewport has scrolled and the selection is on its last row
C5_Witness ==
  /\ op = "key_down"
  /\ scroll_offset >= 2
  /\ content_height >= 2
  /\ _selected_index = Some(scroll_offset + content_height - 1)

\* A key_down step that advances the selection by one row.
Advances == _selected_index # None /\ _selected_index' = Some(Val(_selected_index) + 1)

\* C6 (as claimed): with content height 5 and scroll offset 0, a key_down
\* that advances the selection to index 4 issues exactly one scroll-down
\* request, and one that advances it to index 3 issues none.
C6_ScrollAtIndexFour ==
  [][(op' = "key_down" /\ content_height = 5 /\ scroll_offset = 0 /\ Advances)
       => /\ _selected_index' = Some(4) => scroll_requests' = <<ScrollDownRequest>>
          /\ _selected_index' = Some(3) => scroll_requests' = <<>>]_vars

\* C6 (amended): with content height 5 and scroll offset 0, a key_down that
\* advances the selection to index 5 issues exactly one scroll-down
\* request, and one that advances it to index 4 or to index 3 issues none.
C6_ScrollAtIndexFive ==
  [][(op' = "key_down" /\ content_height = 5 /\ scroll_offset = 0 /\ Advances)
       => /\ _selected_index' = Some(5) => scroll_requests' = <<ScrollDownRequest>>
          /\ _selected_index' \in {Some(3), Some(4)} => scroll_requests' = <<>>]_vars

\* five presses from index 0 in a viewport of height 5: the fifth one, to
\* index 5, asked for the scroll that moved the offset from 0 to 1
C6_Witness ==
  /\ op = "key_down"
  /\ content_height = 5
  /\ streak_down = 5
  /\ _selected_index = Some(5)
  /\ scroll_requests = <<ScrollDownRequest>>
  /\ scroll_offset = 1

\* C7: on a non-empty list key_down issues exactly one non-animated
\* scroll-down request when (new_index - scroll_offset) mod content_height
\* is 0, with the offset read at the key press, and no request otherwise.
C7_KeyDownScrollRule ==
  [][(op' = "key_down" /\ Count > 0)
       => scroll_requests' =
            IF (Val(_selected_index') - scroll_offset) % content_height = 0
            THEN <<[dir |-> "down", animate |-> FALSE]>>
            ELSE <<>>]_vars

\* key_down to index 4 with offset 1 and height 3 requested a scroll
C7_Witness ==
  /\ op = "key_down"
  /\ content_height = 3
  /\ _selected_index = Some(4)
  /\ scroll_requests = <<ScrollDownRequest>>
  /\ scroll_offset = 2

\* C8: on a non-empty list key_up sets the selection to the clamp of
\* selection - 1 and issues exactly one non-animated scroll-up request when
\* (new_index + 1 - scroll_offset) mod content_height is 0, and no request
\* otherwise.
C8_KeyUpScrollRule ==
  [][(op' = "key_up" /\ Count > 0)
       => /\ _selected_index' = Some(Max(Val(_selected_index) - 1, 0))
          /\ scroll_requests' =
               IF (Val(_selected_index') + 1 - scroll_offset) % content_height = 0
               THEN <<[dir |-> "up", animate |-> FALSE]>>
               ELSE <<>>]_vars

\* key_up to index 1 with offset 2 and height 3 requested a scroll
C8_Witness ==
  /\ op = "key_up"
  /\ content_height = 3
  /\ _selected_index = Some(1)
  /\ scroll_requests = <<ScrollUpRequest>>
  /\ scroll_offset = 1

\* C9: add_items with a non-empty sequence on an empty list with no
\* selection selects index 0 and emits exactly one ItemSelected, carrying
\* the first item of the sequence.
C9_FirstAddSelectsFirstItem ==
  [][(op' = "add_items" /\ _items = <<>> /\ _selected_index = None /\ _items' # <<>>)
       => /\ _selected_index' = Some(0)
          /\ emitted' = <<_items'[1]>>]_vars

\* add_items(["b","a","b"]) on the empty list
C9_Witness ==
  /\ op = "add_items"
  /\ _items = <<"b", "a", "b">>
  /\ _selected_index = Some(0)
  /\ emitted = <<"b">>

\* C10: add_items leaves the selection unchanged and emits nothing when
\* its input is empty or a selection already exists, and it keeps the
\* existing items at their positions.
C10_AddItemsFrame ==
  [][(op' = "add_items" /\ (_items' = _items \/ _selected_index # None))
       => /\ _selected_index' = _selected_index
          /\ emitted' = <<>>
          /\ SubSeq(_items', 1, Len(_items)) = _items]_vars

\* items were appended while index 2 was selected
C10_Witness ==
  /\ op = "add_items"
  /\ Count = 5
  /\ _selected_index = Some(2)
  /\ emitted = <<>>

\* A key press that leaves the selected index where it was: the index was
\* clamped at the last item (key_down) or at the first item (key_up).
ClampedPress(key) ==
  /\ op' = key
  /\ _selected_index # None
  /\ _selected_index' = _selected_index

\* C12 (as claimed): with keyboard navigation from offset 0, a key_down or
\* key_up whose index is clamped at the last or first item issues no scroll
\* request, for every list size n >= 1 and content height h >= 1.
C12_ClampedPressNeverScrolls ==
  [][(ClampedPress("key_down") \/ ClampedPress("key_up"))
       => scroll_requests' = <<>>]_vars

\* C12 (amended): a key_up clamped at the first item issues no scroll
\* request when h >= 2, and a key_down clamped at the last item issues none
\* when h >= 2 and n >= 2.
C12_ClampedPressScrollsOnlyInOneRowCases ==
  [][/\ (ClampedPress("key_up") /\ content_height >= 2)
          => scroll_requests' = <<>>
     /\ (ClampedPress("key_down") /\ content_height >= 2 /\ Count >= 2)
          => scroll_requests' = <<>>]_vars

\* the viewport has scrolled and a second key_down was pressed on the last item
C12_Witness ==
  /\ op = "key_down"
  /\ Count >= 3
  /\ content_height >= 2
  /\ scroll_offset >= 1
  /\ streak_down = Count + 1
  /\ _selected_index = Some(Count - 1)
  /\ scroll_requests = <<>>

====
